---- MODULE Spec2Model ----
(***************************************************************************)
(* Preview Buddy (src/PreviewBuddy.py): a Blender add-on for quick         *)
(* viewport preview renders.  The model covers the scene properties the    *)
(* add-on registers, its update callbacks, the render operator with its    *)
(* settings backup/restore, the incremental version naming, and the render *)
(* queue.                                                                  *)
(*                                                                         *)
(* Text (file names, paths) is a sequence of tokens.  A token is one       *)
(* character ("_", "v", ".", "/", "-", "#", a digit) or an opaque word that *)
(* contains none of those characters (a scene name, a camera name, the     *)
(* letters of a file extension).                                           *)
(***************************************************************************)
EXTENDS Integers, Sequences, FiniteSets, TLC

\* ------------------------------------------------------------------ text

DigitTok == <<"0", "1", "2", "3", "4", "5", "6", "7", "8", "9">>

IsDigit(t) == \E i \in 1..10 : DigitTok[i] = t

DigitVal(t) == (CHOOSE i \in 1..10 : DigitTok[i] = t) - 1

\* str(n) for n >= 0
RECURSIVE Digits(_)
Digits(n) == IF n < 10 THEN <<DigitTok[n + 1]>>
             ELSE Digits(n \div 10) \o <<DigitTok[(n % 10) + 1]>>

\* f"{n:0{w}d}" for n >= 0: zero-padded to at least w digits
RECURSIVE PadZero(_, _)
PadZero(s, w) == IF Len(s) >= w THEN s ELSE PadZero(<<"0">> \o s, w)

Fmt03d(n) == PadZero(Digits(n), 3)

Fmt04d(n) == PadZero(Digits(n), 4)

\* int(s) for a non-empty run of digits
RECURSIVE ParseInt(_)
ParseInt(s) == IF Len(s) = 0 THEN 0
               ELSE 10 * ParseInt(SubSeq(s, 1, Len(s) - 1)) + DigitVal(s[Len(s)])

AllDigits(s) == \A i \in 1..Len(s) : IsDigit(s[i])

Tail_(s, i) == SubSeq(s, i, Len(s))

Head_(s, i) == SubSeq(s, 1, i)

StartsWith(s, p) == Len(p) <= Len(s) /\ SubSeq(s, 1, Len(p)) = p

EndsWith(s, p) == Len(p) <= Len(s) /\ SubSeq(s, Len(s) - Len(p) + 1, Len(s)) = p

\* positions where sub occurs in s
Occurs(s, sub) == {i \in 1..(Len(s) - Len(sub) + 1) : SubSeq(s, i, i + Len(sub) - 1) = sub}

\* sub in s
Contains(s, sub) == Occurs(s, sub) # {}

Min(S) == CHOOSE x \in S : \A y \in S : x <= y

Max(S) == CHOOSE x \in S : \A y \in S : x >= y

\* s.split(sub)[0]
SplitFirst(s, sub) == IF Contains(s, sub) THEN Head_(s, Min(Occurs(s, sub)) - 1) ELSE s

\* the length of the longest run of digits of s that starts at position i
RECURSIVE DigitRun(_, _)
DigitRun(s, i) == IF i <= Len(s) /\ IsDigit(s[i]) THEN 1 + DigitRun(s, i + 1) ELSE 0

SlashPos(p) == {i \in 1..Len(p) : p[i] = "/"}

\* os.path.dirname
dirname(p) == IF SlashPos(p) = {} THEN <<>> ELSE Head_(p, Max(SlashPos(p)) - 1)

\* os.path.basename
basename(p) == IF SlashPos(p) = {} THEN p ELSE Tail_(p, Max(SlashPos(p)) + 1)

\* os.path.join(a, b) for a relative b
join(a, b) == IF a = <<>> \/ a[Len(a)] = "/" THEN a \o b ELSE a \o <<"/">> \o b

\* os.path.splitext(name): the extension starts at the last dot, leading dots
\* of the name are not an extension
DotPos(n) == {i \in 1..Len(n) : n[i] = "." /\ \E j \in 1..(i - 1) : n[j] # "."}

splitext(n) == IF DotPos(n) = {} THEN <<n, <<>>>>
               ELSE <<Head_(n, Max(DotPos(n)) - 1), Tail_(n, Max(DotPos(n)))>>

\* ------------------------------------------------------------ file system

\* os.path.exists
exists(fs, p) == p \in fs.files \/ p \in fs.dirs

\* os.listdir: the names of the files and directories directly inside d
listdir(fs, d) == {basename(p) : p \in {q \in fs.files \cup fs.dirs : q # <<>> /\ dirname(q) = d}}

\* every directory on the way down to d
Ancestors(d) == {Head_(d, i - 1) : i \in SlashPos(d)} \ {<<>>}

\* os.makedirs(d, exist_ok=True)
makedirs(fs, d) == [fs EXCEPT !.dirs = @ \cup {d} \cup Ancestors(d)]

\* ------------------------------------------------------- version numbers

\* rest matches  _v\d+<ext>$
IsVersionTail(rest, ext) ==
    /\ Len(rest) >= 3 + Len(ext)
    /\ rest[1] = "_" /\ rest[2] = "v"
    /\ EndsWith(rest, ext)
    /\ AllDigits(SubSeq(rest, 3, Len(rest) - Len(ext)))

\* the lengths of group 1 that let  (.+?)_v\d+<ext>$  match name from its start
TemplateSplits(name, ext) == {i \in 1..Len(name) : IsVersionTail(Tail_(name, i + 1), ext)}

\* version_pattern.match(f): f is <base>_v<digits><ext>
IsVersionOf(f, base, ext) ==
    /\ StartsWith(f, base)
    /\ IsVersionTail(Tail_(f, Len(base) + 1), ext)

VersionOf(f, base, ext) == ParseInt(SubSeq(f, Len(base) + 3, Len(f) - Len(ext)))

\* a version search that answers the highest version found, not the next one
get_highest_version_number(fs, filepath, extension) ==
    LET directory == dirname(filepath)
        filename  == basename(filepath)
        splits    == TemplateSplits(filename, extension)
    IN  IF splits = {} \/ ~exists(fs, directory) THEN 1
        ELSE LET base     == Head_(filename, Min(splits))
                 versions == {VersionOf(f, base, extension) :
                                f \in {g \in listdir(fs, directory) : IsVersionOf(g, base, extension)}}
             IN  IF versions = {} THEN 1 ELSE Max(versions)

get_next_version_number(fs, filepath, extension) ==
    LET directory == dirname(filepath)
        filename  == basename(filepath)
        splits    == TemplateSplits(filename, extension)
    IN  IF splits = {} \/ ~exists(fs, directory) THEN 1
        ELSE LET base     == Head_(filename, Min(splits))
                 versions == {VersionOf(f, base, extension) :
                                f \in {g \in listdir(fs, directory) : IsVersionOf(g, base, extension)}}
             IN  IF versions = {} THEN 1 ELSE Max(versions) + 1

\* re.search(r'_v(\d+)', s): where the leftmost match starts, 0 when there is none
VSearch(s) ==
    LET hits == {i \in Occurs(s, <<"_", "v">>) : DigitRun(s, i + 2) >= 1}
    IN  IF hits = {} THEN 0 ELSE Min(hits)

\* re.search(r'_v(\d+)_', s): the greedy run of digits must be followed by "_"
VSearchU(s) ==
    LET hits == {i \in Occurs(s, <<"_", "v">>) :
                    /\ DigitRun(s, i + 2) >= 1
                    /\ i + 2 + DigitRun(s, i + 2) <= Len(s)
                    /\ s[i + 2 + DigitRun(s, i + 2)] = "_"}
    IN  IF hits = {} THEN 0 ELSE Min(hits)

VNum(s, i) == ParseInt(SubSeq(s, i + 2, i + 1 + DigitRun(s, i + 2)))

\* glob  <base_name>_v*_0001.*  on a file name
GlobFirstFrame(f, base_name) ==
    /\ StartsWith(f, base_name \o <<"_", "v">>)
    /\ \E i \in Occurs(f, <<"_", "0", "0", "0", "1", ".">>) : i >= Len(base_name) + 3

\* ------------------------------------------------------------ the world
\* A world w is the whole program state: w.data (bpy.data), w.scene (the scene
\* with its render settings and the quickpreview_* properties), w.fs (the
\* disk), w.app (the module's global and the registered timer) and w.trace
\* (the host calls made and operator results obtained, in order).

ViewportCam == "VIEWPORT"

NoCamera == "None"

Log(w, ev) == [w EXCEPT !.trace = Append(@, ev)]

\* ------------------------------------------------------------ output path

TempDir == <<"tmp">>

\* the directory of the saved .blend file
BlendDir == <<"proj">>

get_default_output_folder(w) ==
    IF w.data.is_saved THEN BlendDir \o <<"/", "previews", "/">>
    ELSE join(TempDir, <<"blender_previews">>)

\* where  [_-]?v\d+$  first matches in s, 0 when it does not
VersionSuffixStart(s) ==
    LET hits == {i \in 1..Len(s) :
                    \/ /\ s[i] \in {"_", "-"} /\ i + 2 <= Len(s) /\ s[i + 1] = "v"
                       /\ AllDigits(Tail_(s, i + 2))
                    \/ /\ s[i] = "v" /\ i + 1 <= Len(s) /\ AllDigits(Tail_(s, i + 1))}
    IN  IF hits = {} THEN 0 ELSE Min(hits)

get_scene_name(w) ==
    IF w.data.is_saved
    THEN LET scene_name == splitext(basename(w.data.filepath))[1]
         IN  IF ~w.scene.quickpreview_full_scene_name /\ VersionSuffixStart(scene_name) > 0
             THEN Head_(scene_name, VersionSuffixStart(scene_name) - 1)
             ELSE scene_name
    ELSE <<"untitled">>

RECURSIVE JoinParts(_)
JoinParts(parts) == IF Len(parts) = 0 THEN <<>>
                    ELSE IF Len(parts) = 1 THEN parts[1]
                    ELSE parts[1] \o <<"_">> \o JoinParts(Tail(parts))

FormatExtension(fmt) ==
    IF fmt = "MP4_H264" THEN <<".", "mp4">>
    ELSE IF fmt = "PNG_SEQ" THEN <<".", "png">>
    ELSE IF fmt = "JPEG_SEQ" THEN <<".", "jpg">>
    ELSE <<".", "mov">>

IsSequenceFormat(fmt) == fmt \in {"PNG_SEQ", "JPEG_SEQ"}

\* a naming that leaves the version out of the frames' own names
OutputFileNameFlat(sc, base) ==
    IF IsSequenceFormat(sc.quickpreview_output_format)
    THEN IF sc.quickpreview_save_mode = "INCREMENTAL"
         THEN base \o <<"_", "v", "0", "0", "1", "/">> \o base \o <<"_", "#", "#", "#", "#">>
         ELSE base \o <<"/">> \o base \o <<"_", "#", "#", "#", "#">>
    ELSE IF sc.quickpreview_save_mode = "INCREMENTAL"
         THEN base \o <<"_", "v", "0", "0", "1">> \o FormatExtension(sc.quickpreview_output_format)
         ELSE base \o FormatExtension(sc.quickpreview_output_format)

OutputFileName(sc, base) ==
    IF IsSequenceFormat(sc.quickpreview_output_format)
    THEN IF sc.quickpreview_save_mode = "INCREMENTAL"
         THEN base \o <<"_", "v", "0", "0", "1", "/">> \o base \o <<"_", "v", "0", "0", "1", "_", "#", "#", "#", "#">>
         ELSE base \o <<"/">> \o base \o <<"_", "#", "#", "#", "#">>
    ELSE IF sc.quickpreview_save_mode = "INCREMENTAL"
         THEN base \o <<"_", "v", "0", "0", "1">> \o FormatExtension(sc.quickpreview_output_format)
         ELSE base \o FormatExtension(sc.quickpreview_output_format)

\* update_output_path(self, context); manual is self.is_path_manually_edited.
\* Its closing "updating = False" binds a local name: the module's flag is
\* not declared global here and keeps its value.
update_output_path(w, manual) ==
    IF manual THEN w
    ELSE
    LET sc           == w.scene
        parts        == (IF sc.quickpreview_include_scene_name THEN <<get_scene_name(w)>> ELSE <<>>)
                        \o (IF sc.quickpreview_include_camera /\ sc.quickpreview_camera # ViewportCam
                            THEN <<(<<sc.quickpreview_camera>>)>> ELSE <<>>)
                        \o <<Fmt03d(sc.quickpreview_frame_start) \o <<"-">> \o Fmt03d(sc.quickpreview_frame_end)>>
        base         == JoinParts(parts)
        current_path == sc.quickpreview_output_path
        directory    == dirname(current_path)
        output_folder == IF current_path # <<>> /\ directory # <<>> /\ exists(w.fs, directory)
                         THEN directory
                         ELSE get_default_output_folder(w)
    IN  [w EXCEPT !.scene.quickpreview_output_path = join(output_folder, OutputFileName(sc, base))]

\* scene.<option> = value for an option whose update callback is
\* update_output_path: the callback's self is the scene, which has no
\* attribute is_path_manually_edited
SetOption(w, option, value) ==
    update_output_path([w EXCEPT !.scene[option] = value], FALSE)

\* QUICKPREVIEW_OT_set_output_path.execute: the property assigned has no
\* update callback
set_output_path(w, filepath) == [w EXCEPT !.scene.quickpreview_output_path = filepath]

\* update_output_path(None, override) with override a dict: reading
\* context.scene raises in the try block and again in the except block, so
\* the call is left by an exception with nothing assigned
update_output_path_override(w) == [w |-> w, raised |-> TRUE]

\* initialize_output_paths for the one scene of the file; view3d tells
\* whether a window has a 3D viewport area.  The exception of the first
\* update is caught by its own try block.
initialize_output_paths(w, view3d) ==
    IF w.scene.quickpreview_output_path = <<>> /\ view3d
    THEN update_output_path_override(w).w
    ELSE w

\* ------------------------------------------------- per-camera frame ranges
\* quickpreview_camera_ranges holds a JSON object {camera: {start, end}}; it
\* is modelled by the object's members in order.

DictHas(d, k) == \E i \in 1..Len(d) : d[i].name = k

DictGet(d, k) == d[CHOOSE i \in 1..Len(d) : d[i].name = k]

\* data[k] = {'start': s, 'end': e}: a present key keeps its place
DictSet(d, k, s, e) ==
    IF DictHas(d, k)
    THEN [i \in 1..Len(d) |-> IF d[i].name = k THEN [name |-> k, start |-> s, end |-> e] ELSE d[i]]
    ELSE Append(d, [name |-> k, start |-> s, end |-> e])

\* a save that starts from an empty object
save_camera_frame_range_fresh(w, camera_name) ==
    IF camera_name = ViewportCam THEN w
    ELSE [w EXCEPT !.scene.quickpreview_camera_ranges =
                        <<[name |-> camera_name, start |-> w.scene.quickpreview_frame_start,
                           end |-> w.scene.quickpreview_frame_end]>>,
                   !.app.updating = FALSE]

save_camera_frame_range(w, camera_name) ==
    IF camera_name = ViewportCam THEN w
    ELSE [w EXCEPT !.scene.quickpreview_camera_ranges =
                        DictSet(@, camera_name, w.scene.quickpreview_frame_start,
                                w.scene.quickpreview_frame_end),
                   !.app.updating = FALSE]

\* ---------------------------------------------------- property callbacks

\* the part of the frame callbacks after the preview range is settled
SaveRangeAndPath(w) ==
    [update_output_path(save_camera_frame_range(w, w.scene.quickpreview_camera), FALSE)
        EXCEPT !.app.updating = FALSE]

update_frame_range(w) ==
    IF w.app.updating THEN w
    ELSE SaveRangeAndPath(IF w.scene.quickpreview_frame_range = "TIMELINE"
                          THEN [w EXCEPT !.scene.quickpreview_frame_start = w.scene.frame_start,
                                         !.scene.quickpreview_frame_end = w.scene.frame_end]
                          ELSE w)

update_frame_start_end(w) ==
    IF w.app.updating THEN w
    ELSE SaveRangeAndPath(w)

\* scene.<property> = value, followed by the property's update callback
SetFrameStart(w, v) == update_frame_start_end([w EXCEPT !.scene.quickpreview_frame_start = v])

SetFrameEnd(w, v) == update_frame_start_end([w EXCEPT !.scene.quickpreview_frame_end = v])

SetFrameRangeMode(w, m) == update_frame_range([w EXCEPT !.scene.quickpreview_frame_range = m])

\* a load that brings back the start frame only
load_camera_frame_start_only(w, camera_name) ==
    IF w.app.updating \/ camera_name = ViewportCam THEN w
    ELSE IF DictHas(w.scene.quickpreview_camera_ranges, camera_name)
         THEN [w EXCEPT !.scene.quickpreview_frame_start =
                            DictGet(w.scene.quickpreview_camera_ranges, camera_name).start,
                        !.app.updating = FALSE]
         ELSE [w EXCEPT !.app.updating = FALSE]

\* "Load frame range if we have it": both assignments run the callback of
\* the property, with updating set
LoadStoredRange(w, ranges) ==
    [SetFrameEnd(SetFrameStart([w EXCEPT !.app.updating = TRUE], ranges.start), ranges.end)
        EXCEPT !.app.updating = FALSE]

\* a load that stores the shown range for a camera that has none
load_camera_frame_range_or_store(w, camera_name) ==
    IF w.app.updating \/ camera_name = ViewportCam THEN w
    ELSE IF DictHas(w.scene.quickpreview_camera_ranges, camera_name)
         THEN LoadStoredRange(w, DictGet(w.scene.quickpreview_camera_ranges, camera_name))
         ELSE save_camera_frame_range(w, camera_name)

load_camera_frame_range(w, camera_name) ==
    IF w.app.updating \/ camera_name = ViewportCam THEN w
    ELSE IF DictHas(w.scene.quickpreview_camera_ranges, camera_name)
         THEN LoadStoredRange(w, DictGet(w.scene.quickpreview_camera_ranges, camera_name))
         ELSE [w EXCEPT !.app.updating = FALSE]

\* the part of update_camera after the frame range is loaded
ActivateCamera(w, camera_name) ==
    update_output_path(
        IF camera_name # ViewportCam /\ camera_name \in w.data.cameras
        THEN [w EXCEPT !.scene.camera = camera_name]
        ELSE w, FALSE)

update_camera(w) ==
    IF w.app.updating THEN w
    ELSE ActivateCamera(load_camera_frame_range(w, w.scene.quickpreview_camera),
                        w.scene.quickpreview_camera)

SetCamera(w, name) == update_camera([w EXCEPT !.scene.quickpreview_camera = name])

\* ------------------------------------------------ settings backup/restore

\* scene.frame_start = s; scene.frame_end = e.  The host keeps the timeline
\* ordered: a start above the end raises the end, an end below the start
\* lowers the start.
SetSceneFrames(w, s, e) ==
    [w EXCEPT !.scene.frame_start = IF s > e THEN e ELSE s,
              !.scene.frame_end = e]


\* the render settings store_original_settings records (those the host never
\* changes on its own and the operator never writes are left out of the model:
\* compression, use_autosplit, audio_channels, audio_bitrate, audio_mixrate,
\* use_sequencer)
CapturedFields ==
    {"fps", "resolution_percentage", "filepath", "file_format", "color_mode", "color_depth",
     "use_stamp", "use_stamp_frame", "use_stamp_frame_range", "use_stamp_camera",
     "use_stamp_lens", "use_stamp_scene", "stamp_font_size", "ffmpeg_format", "ffmpeg_codec",
     "ffmpeg_audio_codec", "ffmpeg_constant_rate_factor", "ffmpeg_ffmpeg_preset",
     "ffmpeg_gopsize", "use_simplify"}

NoSettings == [present |-> FALSE]

\* the host's setter of image_settings.file_format keeps colour mode and depth
\* among those the format supports
SetFileFormat(r, fmt) ==
    [r EXCEPT !.file_format = fmt,
              !.color_mode  = IF fmt \in {"JPEG", "FFMPEG"} /\ @ = "RGBA" THEN "RGB" ELSE @,
              !.color_depth = IF fmt \in {"JPEG", "FFMPEG"} THEN "8"
                              ELSE IF fmt = "PNG" /\ @ \notin {"8", "16"} THEN "16"
                              ELSE IF fmt = "OPEN_EXR" /\ @ \notin {"16", "32"} THEN "32"
                              ELSE @]

\* store_original_settings: <<backup_file, settings>> and the disk after it;
\* written is FALSE when writing the backup file raises
store_original_settings(w, written) ==
    LET settings == [present     |-> TRUE,
                     frame_start |-> w.scene.frame_start,
                     frame_end   |-> w.scene.frame_end,
                     camera      |-> w.scene.camera,
                     render      |-> [f \in CapturedFields |-> w.scene.render[f]]]
    IN  IF written
        THEN [w |-> [w EXCEPT !.fs.backups = @ \cup {settings}],
              backup_file |-> {settings}, settings |-> settings]
        ELSE [w |-> w, backup_file |-> {}, settings |-> NoSettings]

\* a restore that forgets the colour depth
RestoreImageSettingsNoDepth(r, s) ==
    [SetFileFormat(r, s.file_format) EXCEPT !.color_mode = s.color_mode]

\* "Restore render image settings"
RestoreImageSettings(r, s) ==
    [SetFileFormat(r, s.file_format) EXCEPT !.color_mode = s.color_mode,
                                            !.color_depth = s.color_depth]

\* restore_original_settings: the world after it and its return value
restore_original_settings(w, settings) ==
    IF ~settings.present THEN [w |-> w, ok |-> TRUE]
    ELSE
    LET s  == settings.render
        camera_found == settings.camera \in w.data.cameras
        r0 == w.scene.render
        r1 == [r0 EXCEPT !.fps = s.fps,
                         !.resolution_percentage = s.resolution_percentage,
                         !.filepath = s.filepath]
        r2 == RestoreImageSettings(r1, s)
        r3 == [r2 EXCEPT !.use_stamp = s.use_stamp,
                         !.use_stamp_frame = s.use_stamp_frame,
                         !.use_stamp_frame_range = s.use_stamp_frame_range,
                         !.use_stamp_camera = s.use_stamp_camera,
                         !.use_stamp_lens = s.use_stamp_lens,
                         !.use_stamp_scene = s.use_stamp_scene,
                         !.stamp_font_size = s.stamp_font_size,
                         !.ffmpeg_format = s.ffmpeg_format,
                         !.ffmpeg_codec = s.ffmpeg_codec,
                         !.ffmpeg_audio_codec = s.ffmpeg_audio_codec,
                         !.ffmpeg_constant_rate_factor = s.ffmpeg_constant_rate_factor,
                         !.ffmpeg_ffmpeg_preset = s.ffmpeg_ffmpeg_preset,
                         !.ffmpeg_gopsize = s.ffmpeg_gopsize,
                         !.use_simplify = s.use_simplify]
    IN  [w  |-> [SetSceneFrames(w, settings.frame_start, settings.frame_end)
                    EXCEPT !.scene.camera = IF settings.camera # NoCamera /\ camera_found
                                            THEN settings.camera ELSE @,
                           !.scene.render = r3],
         ok |-> settings.camera = NoCamera \/ camera_found]

\* ------------------------------------------------------- render operator

\* the path the operator renders to, from the configured output path
\* (QUICKPREVIEW_OT_render.execute, "For incremental mode ...")
NextVersionPath(w, init_path) ==
    LET directory == dirname(init_path)
        filename  == basename(init_path)
        extension == splitext(filename)[2]
        base      == IF Contains(filename, <<"_", "v">>)
                     THEN SplitFirst(filename, <<"_", "v">>)
                     ELSE splitext(filename)[1]
        next_version_path == join(directory, base \o <<"_", "v", "0", "0", "1">> \o extension)
        next_version == get_next_version_number(w.fs, next_version_path, extension)
    IN  IF /\ w.scene.quickpreview_save_mode = "INCREMENTAL"
           /\ (Contains(filename, <<"_", "v", "0", "0", "1">>) \/ ~Contains(filename, <<"_", "v">>))
        THEN join(directory, base \o <<"_", "v">> \o Fmt03d(next_version) \o extension)
        ELSE init_path

\* the name, without frame number, the frames of an image sequence get
SequenceBaseName(w, full_path) ==
    LET output_dir    == dirname(full_path)
        base_filename == splitext(basename(full_path))[1]
        at            == VSearch(base_filename)
        current_version == VNum(base_filename, at)
        base_name     == Head_(base_filename, at - 1)
        existing_files == {f \in listdir(w.fs, output_dir) : GlobFirstFrame(f, base_name)}
        found         == {VNum(f, VSearchU(f)) : f \in {g \in existing_files : VSearchU(g) > 0}}
        highest_version == IF found = {} THEN 0 ELSE Max(found)
    IN  IF /\ w.scene.quickpreview_save_mode = "INCREMENTAL"
           /\ at > 0
           /\ existing_files # {}
           /\ highest_version >= current_version
        THEN base_name \o <<"_", "v">> \o Fmt03d(highest_version + 1)
        ELSE base_filename

\* the files bpy.ops.render.opengl(animation=True) writes: the movie at
\* render.filepath, or one image per frame named filepath + 4-digit frame
\* number + extension
OpenGLFiles(sc) ==
    IF sc.render.file_format = "FFMPEG" THEN {sc.render.filepath}
    ELSE {sc.render.filepath \o Fmt04d(f) \o
            (IF sc.render.file_format = "PNG" THEN <<".", "png">> ELSE <<".", "jpg">>) :
          f \in sc.frame_start..sc.frame_end}

render_opengl(w) ==
    Log([w EXCEPT !.fs.files = @ \cup OpenGLFiles(w.scene)],
        [ev |-> "opengl", frame_start |-> w.scene.frame_start, frame_end |-> w.scene.frame_end,
         camera |-> w.scene.camera, render |-> w.scene.render,
         files |-> OpenGLFiles(w.scene)])

\* the preview settings written between "Set rendering parameters" and the
\* host render
ApplyPreviewSettings(w, full_path) ==
    LET sc == w.scene
        output_dir == dirname(full_path)
        r1 == [sc.render EXCEPT !.filepath = full_path]
        r2 == IF IsSequenceFormat(sc.quickpreview_output_format)
              THEN LET r == IF sc.quickpreview_output_format = "PNG_SEQ"
                            THEN SetFileFormat(r1, "PNG")
                            ELSE [SetFileFormat(r1, "JPEG") EXCEPT !.quality = sc.quickpreview_image_quality]
                   IN  [r EXCEPT !.filepath = join(output_dir, SequenceBaseName(w, full_path) \o <<"_">>)]
              ELSE [SetFileFormat(r1, "FFMPEG") EXCEPT
                        !.ffmpeg_format = IF sc.quickpreview_output_format = "MP4_H264"
                                          THEN "MPEG4" ELSE "QUICKTIME",
                        !.ffmpeg_codec = "H264",
                        !.ffmpeg_constant_rate_factor =
                            IF sc.quickpreview_video_quality \in {"HIGH", "MEDIUM"}
                            THEN sc.quickpreview_video_quality ELSE "LOW"]
        r3 == [r2 EXCEPT !.fps = IF sc.quickpreview_override_fps THEN sc.quickpreview_fps ELSE @,
                         !.resolution_percentage = IF sc.quickpreview_override_resolution_scale
                                                   THEN sc.quickpreview_resolution_scale ELSE @]
        r4 == IF sc.quickpreview_burn_metadata
              THEN [r3 EXCEPT !.use_stamp = TRUE,
                              !.use_stamp_frame = TRUE,
                              !.use_stamp_frame_range = TRUE,
                              !.use_stamp_camera = TRUE,
                              !.use_stamp_lens = TRUE,
                              !.use_stamp_scene = TRUE,
                              !.use_stamp_date = FALSE,
                              !.use_stamp_time = FALSE,
                              !.use_stamp_render_time = FALSE,
                              !.use_stamp_memory = FALSE,
                              !.use_stamp_hostname = FALSE,
                              !.use_stamp_marker = FALSE,
                              !.use_stamp_filename = FALSE,
                              !.stamp_font_size = sc.quickpreview_metadata_fontsize]
              ELSE [r3 EXCEPT !.use_stamp = FALSE]
    IN  [SetSceneFrames(w, sc.quickpreview_frame_start, sc.quickpreview_frame_end)
           EXCEPT !.scene.render = [r4 EXCEPT !.ffmpeg_audio_codec = "AAC"],
                  !.scene.camera = IF sc.quickpreview_camera # ViewportCam
                                      /\ sc.quickpreview_camera \in w.data.cameras
                                   THEN sc.quickpreview_camera ELSE @]

\* the try block of execute from "Create output directory" on: the world when
\* it is left and whether it was left by an exception.  fault names the host
\* call that raises, if any; makedirs of an empty path always raises.
RenderTo(w, full_path, fault) ==
    IF ~exists(w.fs, dirname(full_path)) /\ (fault = "makedirs" \/ dirname(full_path) = <<>>)
    THEN [w |-> w, raised |-> TRUE]
    ELSE IF fault = "opengl"
    THEN [w |-> ApplyPreviewSettings([w EXCEPT !.fs = makedirs(@, dirname(full_path))], full_path),
          raised |-> TRUE]
    ELSE [w |-> [render_opengl(ApplyPreviewSettings(
                                   [w EXCEPT !.fs = makedirs(@, dirname(full_path))], full_path))
                    EXCEPT !.scene.quickpreview_progress = 1],
          raised |-> FALSE]

\* the try block up to the choice of the path
RenderPrepare(w) ==
    IF w.scene.quickpreview_output_path = <<>>
    THEN update_output_path(w, FALSE)
    ELSE w

RenderPath(w, fault) == RenderTo(w, NextVersionPath(w, w.scene.quickpreview_output_path), fault)

RenderBody(w, fault) ==
    RenderPath(RenderPrepare([w EXCEPT !.scene.quickpreview_progress = 0,
                                       !.scene.quickpreview_is_rendering = TRUE,
                                       !.app.timer_registered = TRUE,
                                       !.scene.render.use_simplify = w.scene.quickpreview_use_simplify]),
               fault)

\* the except block of execute
RenderExcept(body) ==
    IF body.raised
    THEN Log([body.w EXCEPT !.scene.quickpreview_progress = 0],
             [ev |-> "except", frame_start |-> body.w.scene.frame_start,
              frame_end |-> body.w.scene.frame_end, camera |-> body.w.scene.camera,
              render |-> body.w.scene.render])
    ELSE body.w

\* the finally block of execute
RenderCleanup(restored, backup) ==
    IF restored.ok
    THEN [restored.w EXCEPT !.fs.backups = @ \ backup.backup_file]
    ELSE restored.w

RenderFinally(w, backup) ==
    RenderCleanup(restore_original_settings([w EXCEPT !.scene.quickpreview_is_rendering = FALSE,
                                                      !.app.timer_registered = FALSE],
                                            backup.settings),
                  backup)

RenderOutcome(body, backup) ==
    [w |-> RenderFinally(RenderExcept(body), backup),
     result |-> IF body.raised THEN "CANCELLED" ELSE "FINISHED"]

RenderWithBackup(backup, fault) == RenderOutcome(RenderBody(backup.w, fault), backup)

\* an execute without the check that the file is saved
render_execute_unchecked(w, written, fault) ==
    RenderWithBackup(store_original_settings(w, written), fault)

\* QUICKPREVIEW_OT_render.execute: the world after it and the set it returns
render_execute(w, written, fault) ==
    IF ~w.data.is_saved
    THEN [w |-> Log(w, [ev |-> "report", level |-> "ERROR"]), result |-> "CANCELLED"]
    ELSE RenderWithBackup(store_original_settings(w, written), fault)

\* ------------------------------------------------------- crash recovery

\* where in execute the host terminates: when store_original_settings has
\* returned, when the preview settings are applied, when the host render is
\* done (the finally block has not run)
CrashPoints == {"stored", "applied", "rendered"}

\* the world in which execute is cut short at point
RenderUntil(w, written, point) ==
    IF point = "stored" THEN store_original_settings(w, written).w
    ELSE IF point = "applied" THEN RenderBody(store_original_settings(w, written).w, "opengl").w
    ELSE RenderBody(store_original_settings(w, written).w, "none").w

\* check_for_recovery_files: a notice is shown when the temp directory holds
\* a backup file
check_for_recovery_files(w) ==
    IF w.fs.backups # {} THEN Log(w, [ev |-> "recovery_notice"]) ELSE w

\* the host starts again and loads the file saved (the .blend file on the
\* disk holds the data and the scene of saved); the disk is the one the crash
\* left, the module is loaded anew, the load_post handler runs
load_post(w, saved) ==
    check_for_recovery_files(
        Log([data |-> saved.data, scene |-> saved.scene, fs |-> w.fs, app |-> saved.app,
             trace |-> w.trace],
            [ev |-> "crash", frame_start |-> w.scene.frame_start, frame_end |-> w.scene.frame_end,
             camera |-> w.scene.camera, render |-> w.scene.render]))

\* "Load most recent backup": the specification keeps at most one backup
\* file; what json.load reads is what json.dump wrote (numbers, strings and
\* booleans)
LatestBackup(fs) == CHOOSE settings \in fs.backups : TRUE

\* the part of restore_settings after the settings are applied
RestoreReport(restored, settings) ==
    [w |-> IF restored.ok
           THEN Log([restored.w EXCEPT !.fs.backups = @ \ {settings}], [ev |-> "report", level |-> "INFO"])
           ELSE Log(restored.w, [ev |-> "report", level |-> "WARNING"]),
     result |-> "FINISHED"]

\* QUICKPREVIEW_OT_restore_settings.execute
restore_settings(w) ==
    IF w.fs.backups = {}
    THEN [w |-> Log(w, [ev |-> "report", level |-> "INFO"]), result |-> "CANCELLED"]
    ELSE RestoreReport(restore_original_settings(w, LatestBackup(w.fs)), LatestBackup(w.fs))

\* --------------------------------------------------------- render queue

\* QUICKPREVIEW_OT_add_to_queue.execute
add_to_queue(w) ==
    [w EXCEPT !.scene.quickpreview_queue =
        Append(@, [camera_name |-> w.scene.quickpreview_camera,
                   frame_start |-> w.scene.quickpreview_frame_start,
                   frame_end   |-> w.scene.quickpreview_frame_end,
                   output_path |-> w.scene.quickpreview_output_path,
                   enabled     |-> TRUE,
                   status      |-> "PENDING"])]

\* a removal that takes the last item when the index is past the end
remove_queue_item_clamped(w, index) ==
    LET q == w.scene.quickpreview_queue
    IN  IF 0 <= index /\ q # <<>>
        THEN [w EXCEPT !.scene.quickpreview_queue =
                  IF index < Len(q)
                  THEN SubSeq(q, 1, index) \o SubSeq(q, index + 2, Len(q))
                  ELSE SubSeq(q, 1, Len(q) - 1)]
        ELSE w

\* QUICKPREVIEW_OT_remove_queue_item.execute; index counts from 0
remove_queue_item(w, index) ==
    LET q == w.scene.quickpreview_queue
    IN  IF 0 <= index /\ index < Len(q)
        THEN [w EXCEPT !.scene.quickpreview_queue =
                  SubSeq(q, 1, index) \o SubSeq(q, index + 2, Len(q))]
        ELSE w

\* QUICKPREVIEW_OT_clear_queue.execute
clear_queue(w) == [w EXCEPT !.scene.quickpreview_queue = <<>>]

\* the identifiers the quickpreview_camera enum accepts
CameraItems(w) == {ViewportCam} \cup w.data.cameras

\* the item's settings applied with the camera assigned last
ApplyItemCameraLast(w, item) ==
    [SetCamera(SetFrameEnd(SetFrameStart(w, item.frame_start), item.frame_end), item.camera_name)
        EXCEPT !.scene.quickpreview_output_path = item.output_path]

\* "apply this item's settings": each of the first three assignments runs the
\* property's update callback, the fourth has none
ApplyItem(w, item) ==
    [SetFrameEnd(SetFrameStart(SetCamera(w, item.camera_name), item.frame_start), item.frame_end)
        EXCEPT !.scene.quickpreview_output_path = item.output_path]

Announce(w, i) ==
    Log(w, [ev |-> "render", index |-> i,
            camera |-> w.scene.quickpreview_camera,
            frame_start |-> w.scene.quickpreview_frame_start,
            frame_end |-> w.scene.quickpreview_frame_end,
            output_path |-> w.scene.quickpreview_output_path])

SetStatus(r, i) ==
    [w |-> Log([r.w EXCEPT !.scene.quickpreview_queue[i].status =
                    IF r.result = "FINISHED" THEN "COMPLETED" ELSE "FAILED"],
               [ev |-> "result", index |-> i, result |-> r.result]),
     raised |-> FALSE]

\* one turn of the loop of process_queue on item i; outcome is what the host
\* does to that item's render.  Assigning quickpreview_camera a name that is
\* not among the enum's items raises, and the exception leaves the operator.
ProcessItem(w, i, outcome) ==
    IF ~w.scene.quickpreview_queue[i].enabled THEN [w |-> w, raised |-> FALSE]
    ELSE IF w.scene.quickpreview_queue[i].camera_name \notin CameraItems(w)
    THEN [w |-> [w EXCEPT !.scene.quickpreview_queue[i].status = "PROCESSING"], raised |-> TRUE]
    ELSE SetStatus(render_execute(
                       Announce(ApplyItem([w EXCEPT !.scene.quickpreview_queue[i].status = "PROCESSING"],
                                          w.scene.quickpreview_queue[i]), i),
                       outcome.written, outcome.fault), i)

RECURSIVE ProcessFrom(_, _, _)

\* the loop of process_queue after the turn on item i - 1
ContinueFrom(step, i, outcomes) ==
    IF step.raised THEN step ELSE ProcessFrom(step.w, i, outcomes)

ProcessFrom(w, i, outcomes) ==
    IF i > Len(w.scene.quickpreview_queue) THEN [w |-> w, raised |-> FALSE]
    ELSE ContinueFrom(ProcessItem(w, i, outcomes[i]), i + 1, outcomes)

\* a "restore original" that leaves the active camera as the last item set it
RestoreOriginalButCamera(done, w) ==
    IF done.raised THEN [w |-> done.w, result |-> "ERROR"]
    ELSE [w |-> [SetSceneFrames(done.w, w.scene.frame_start, w.scene.frame_end)
                    EXCEPT !.scene.quickpreview_output_path = w.scene.quickpreview_output_path],
          result |-> "FINISHED"]

\* QUICKPREVIEW_OT_process_queue.execute; "ERROR" stands for the operator
\* being left by an exception
RestoreOriginal(done, w) ==
    IF done.raised THEN [w |-> done.w, result |-> "ERROR"]
    ELSE [w |-> [SetSceneFrames(done.w, w.scene.frame_start, w.scene.frame_end)
                    EXCEPT !.scene.camera = w.scene.camera,
                           !.scene.quickpreview_output_path = w.scene.quickpreview_output_path],
          result |-> "FINISHED"]

process_queue(w, outcomes) ==
    IF Len(w.scene.quickpreview_queue) = 0
    THEN [w |-> Log(w, [ev |-> "report", level |-> "WARNING"]), result |-> "CANCELLED"]
    ELSE RestoreOriginal(ProcessFrom(w, 1, outcomes), w)

\* ---------------------------------------------------------------- state

VARIABLES
    data,    \* bpy.data: is_saved, filepath of the .blend file, the camera objects
    scene,   \* the scene: timeline, active camera, render settings, quickpreview_* properties
    fs,      \* the disk: files, directories, settings backup files in the temp directory
    app,     \* the module-level global "updating" and the registered progress timer
    last,    \* the last step taken: its name, arguments, result, the world before it, its trace
    edited   \* per camera, the preview range the user's last edit under that camera left

vars == <<data, scene, fs, app, last, edited>>

World == [data |-> data, scene |-> scene, fs |-> fs, app |-> app, trace |-> <<>>]

Before == [data |-> data, scene |-> scene, fs |-> fs, app |-> app]

\* what the Camera selector and the preview range show
Selection ==
    [camera |-> scene.quickpreview_camera,
     range  |-> <<scene.quickpreview_frame_start, scene.quickpreview_frame_end>>]

\* the world before the step is kept for the operators (render, process_queue)
\* and for a render cut short by a crash, whose effect is compared with it,
\* the selection before a camera is picked
Commit(nw, op, args, result) ==
    /\ data' = nw.data
    /\ scene' = nw.scene
    /\ fs' = nw.fs
    /\ app' = nw.app
    /\ last' = [op |-> op, args |-> args, result |-> result,
                pre |-> IF op \in {"render", "process_queue", "crash"} THEN Before
                        ELSE IF op = "select_camera" THEN Selection
                        ELSE <<>>,
                trace |-> nw.trace]

\* ----------------------------------------------------------------- bounds

\* frame numbers the user enters are 1..MaxFrame
MaxFrame == 2

\* renders stop once the output folders hold this many files
MaxFiles == 1

\* and once they have made this many directories
MaxDirs == 2

\* the queue holds at most this many items
MaxQueue == 2

\* renders go on in the versioning specification while the disk holds fewer
\* files than this
MaxStored == 4

CamA == "CamA"

CamB == "CamB"

Cameras == {CamA, CamB}

Frames == 1..MaxFrame

Faults == {"none", "makedirs", "opengl"}

\* --------------------------------------------------------- initial states

\* two configurations of the render settings a user may have
RenderProfile(k) ==
    IF k = 1
    THEN [fps |-> 24, resolution_percentage |-> 100, filepath |-> <<"tmp", "/">>,
          file_format |-> "PNG", color_mode |-> "RGBA", color_depth |-> "16", quality |-> 90,
          use_stamp |-> FALSE, use_stamp_frame |-> TRUE, use_stamp_frame_range |-> FALSE,
          use_stamp_camera |-> TRUE, use_stamp_lens |-> FALSE, use_stamp_scene |-> TRUE,
          use_stamp_date |-> TRUE, use_stamp_time |-> TRUE, use_stamp_render_time |-> TRUE,
          use_stamp_memory |-> FALSE, use_stamp_hostname |-> FALSE, use_stamp_marker |-> FALSE,
          use_stamp_filename |-> TRUE, stamp_font_size |-> 12,
          ffmpeg_format |-> "MKV", ffmpeg_codec |-> "H264", ffmpeg_audio_codec |-> "NONE",
          ffmpeg_constant_rate_factor |-> "MEDIUM", ffmpeg_ffmpeg_preset |-> "GOOD",
          ffmpeg_gopsize |-> 18, use_simplify |-> FALSE]
    ELSE [fps |-> 25, resolution_percentage |-> 75, filepath |-> <<"proj", "/", "final", "_">>,
          file_format |-> "OPEN_EXR", color_mode |-> "RGB", color_depth |-> "32", quality |-> 75,
          use_stamp |-> TRUE, use_stamp_frame |-> FALSE, use_stamp_frame_range |-> TRUE,
          use_stamp_camera |-> FALSE, use_stamp_lens |-> TRUE, use_stamp_scene |-> FALSE,
          use_stamp_date |-> FALSE, use_stamp_time |-> FALSE, use_stamp_render_time |-> FALSE,
          use_stamp_memory |-> TRUE, use_stamp_hostname |-> TRUE, use_stamp_marker |-> TRUE,
          use_stamp_filename |-> FALSE, stamp_font_size |-> 30,
          ffmpeg_format |-> "AVI", ffmpeg_codec |-> "MPEG4", ffmpeg_audio_codec |-> "MP3",
          ffmpeg_constant_rate_factor |-> "LOSSLESS", ffmpeg_ffmpeg_preset |-> "BEST",
          ffmpeg_gopsize |-> 12, use_simplify |-> TRUE]

\* the scene as register() leaves it, on a timeline start..end_
DefaultScene(k, start, end_, camera) ==
    [frame_start |-> start, frame_end |-> end_, camera |-> camera, render |-> RenderProfile(k),
     quickpreview_progress |-> 0, quickpreview_is_rendering |-> FALSE,
     quickpreview_use_simplify |-> FALSE, quickpreview_burn_metadata |-> TRUE,
     quickpreview_metadata_fontsize |-> 24, quickpreview_output_path |-> <<>>,
     quickpreview_camera_ranges |-> <<>>, quickpreview_frame_range |-> "TIMELINE",
     quickpreview_camera |-> ViewportCam, quickpreview_include_camera |-> TRUE,
     quickpreview_include_scene_name |-> TRUE, quickpreview_full_scene_name |-> FALSE,
     quickpreview_save_mode |-> "INCREMENTAL", quickpreview_frame_start |-> 1,
     quickpreview_frame_end |-> 250, quickpreview_override_fps |-> FALSE,
     quickpreview_fps |-> 30, quickpreview_override_resolution_scale |-> FALSE,
     quickpreview_resolution_scale |-> 50, quickpreview_output_format |-> "MP4_H264",
     quickpreview_video_quality |-> "MEDIUM", quickpreview_image_quality |-> 90,
     quickpreview_queue |-> <<>>]

\* the preview options of three users: the defaults; a JPEG sequence with
\* every override on and no burnt-in metadata; a QuickTime movie in overwrite mode
WithOptions(sc, k) ==
    IF k = 1 THEN sc
    ELSE IF k = 2
    THEN [sc EXCEPT !.quickpreview_output_format = "JPEG_SEQ",
                    !.quickpreview_burn_metadata = FALSE,
                    !.quickpreview_override_fps = TRUE,
                    !.quickpreview_override_resolution_scale = TRUE,
                    !.quickpreview_use_simplify = ~sc.render.use_simplify,
                    !.quickpreview_image_quality = 80,
                    !.quickpreview_frame_start = 2,
                    !.quickpreview_frame_end = 3]
    ELSE [sc EXCEPT !.quickpreview_output_format = "MOV_H264",
                    !.quickpreview_save_mode = "OVERWRITE",
                    !.quickpreview_video_quality = "HIGH",
                    !.quickpreview_use_simplify = TRUE]

BlendFile == <<"proj", "/", "shot", "_", "v", "0", "0", "2", ".", "blend">>

\* the world when register() has run: the properties at their defaults
RegisteredWorld(saved, cameras, sc, files, dirs) ==
    [data  |-> [is_saved |-> saved, filepath |-> IF saved THEN BlendFile ELSE <<>>,
                cameras |-> cameras],
     scene |-> sc,
     fs    |-> [files |-> files, dirs |-> dirs \cup {TempDir, BlendDir}, backups |-> {}],
     app   |-> [updating |-> FALSE, timer_registered |-> FALSE],
     trace |-> <<>>]

\* the world once a property update has generated the output path
InitWorld(saved, cameras, sc, files, dirs) ==
    update_output_path(RegisteredWorld(saved, cameras, sc, files, dirs), FALSE)

Start(nw) ==
    /\ data = nw.data
    /\ scene = nw.scene
    /\ fs = nw.fs
    /\ app = nw.app
    /\ last = [op |-> "init", args |-> <<>>, result |-> "", pre |-> <<>>, trace |-> <<>>]
    /\ edited = [c \in Cameras |-> <<>>]

\* ---------------------------------------------------------------- actions

\* the user presses MAKE PREVIEW (quickpreview.render)
CanRender ==
    /\ Cardinality(fs.files) < MaxFiles
    /\ Cardinality(fs.dirs \ {TempDir, BlendDir}) < MaxDirs

Render ==
    /\ CanRender
    /\ \E written \in BOOLEAN, fault \in Faults :
         LET r == render_execute(World, written, fault)
         IN  Commit(r.w, "render", [written |-> written, fault |-> fault], r.result)
    /\ UNCHANGED edited

\* the user picks a camera in the Camera selector
SelectCamera ==
    /\ \E c \in CameraItems(World) :
         Commit(SetCamera(World, c), "select_camera", c, "")
    /\ UNCHANGED edited

\* host: the user makes another object (or none) the scene's active camera
SetSceneCamera ==
    /\ \E c \in data.cameras \cup {NoCamera} :
         /\ c # scene.camera
         /\ Commit([World EXCEPT !.scene.camera = c], "set_scene_camera", c, "")
    /\ UNCHANGED edited

\* host: the user saves the .blend file for the first time
SaveFile ==
    /\ ~data.is_saved
    /\ Commit([World EXCEPT !.data.is_saved = TRUE, !.data.filepath = BlendFile], "save_file", <<>>, "")
    /\ UNCHANGED edited

\* the user types a value into Start Frame
EditFrameStart ==
    \E v \in Frames :
        LET nw == SetFrameStart(World, v)
        IN  /\ Commit(nw, "edit_frame_start", v, "")
            /\ edited' = IF scene.quickpreview_camera \in Cameras
                         THEN [edited EXCEPT ![scene.quickpreview_camera] =
                                  <<nw.scene.quickpreview_frame_start, nw.scene.quickpreview_frame_end>>]
                         ELSE edited

\* the user types a value into End Frame
EditFrameEnd ==
    \E v \in Frames :
        LET nw == SetFrameEnd(World, v)
        IN  /\ Commit(nw, "edit_frame_end", v, "")
            /\ edited' = IF scene.quickpreview_camera \in Cameras
                         THEN [edited EXCEPT ![scene.quickpreview_camera] =
                                  <<nw.scene.quickpreview_frame_start, nw.scene.quickpreview_frame_end>>]
                         ELSE edited

\* the user switches the Frame Range mode
ChangeFrameRangeMode ==
    /\ \E m \in {"TIMELINE", "CUSTOM"} :
         /\ m # scene.quickpreview_frame_range
         /\ Commit(SetFrameRangeMode(World, m), "set_frame_range", m, "")
    /\ UNCHANGED edited

\* host: the user changes the scene's timeline range
SetTimeline ==
    /\ \E s \in Frames, e \in Frames :
         /\ s <= e
         /\ <<s, e>> # <<scene.frame_start, scene.frame_end>>
         /\ Commit([World EXCEPT !.scene.frame_start = s, !.scene.frame_end = e],
                   "set_timeline", <<s, e>>, "")
    /\ UNCHANGED edited

\* the user presses MAKE PREVIEW with earlier previews on the disk
RenderAgain ==
    /\ Cardinality(fs.files) < MaxStored
    /\ \E written \in BOOLEAN, fault \in Faults :
         LET r == render_execute(World, written, fault)
         IN  Commit(r.w, "render", [written |-> written, fault |-> fault], r.result)
    /\ UNCHANGED edited

\* the user presses Add to Queue
AddToQueue ==
    /\ Len(scene.quickpreview_queue) < MaxQueue
    /\ Commit(add_to_queue(World), "add_to_queue", <<>>, "FINISHED")
    /\ UNCHANGED edited

\* the user presses the X of a queue item
RemoveQueueItem ==
    /\ \E index \in -1..Len(scene.quickpreview_queue) :
         Commit(remove_queue_item(World, index), "remove_queue_item", index, "FINISHED")
    /\ UNCHANGED edited

\* the user presses Clear Queue
ClearQueue ==
    /\ scene.quickpreview_queue # <<>>
    /\ Commit(clear_queue(World), "clear_queue", <<>>, "FINISHED")
    /\ UNCHANGED edited

\* host: a script clears the enabled flag of a queue item
DisableItem ==
    /\ \E i \in 1..Len(scene.quickpreview_queue) :
         /\ scene.quickpreview_queue[i].enabled
         /\ Commit([World EXCEPT !.scene.quickpreview_queue[i].enabled = FALSE],
                   "disable_item", i, "")
    /\ UNCHANGED edited

\* host: the user deletes a camera object that is not the selected preview
\* camera; a scene whose active camera it was has none afterwards
DeleteCamera ==
    /\ \E c \in data.cameras :
         /\ c # scene.quickpreview_camera
         /\ Commit([World EXCEPT !.data.cameras = @ \ {c},
                                 !.scene.camera = IF @ = c THEN NoCamera ELSE @],
                   "delete_camera", c, "")
    /\ UNCHANGED edited

\* what the host does to the render of each queue item; a disabled item has
\* no render
QueueFaults == {"none", "opengl"}

Outcomes(q) ==
    {o \in [1..Len(q) -> [written : BOOLEAN, fault : QueueFaults]] :
        \A i \in 1..Len(q) : ~q[i].enabled => o[i] = [written |-> TRUE, fault |-> "none"]}

\* the user presses Process Queue
ProcessQueue ==
    /\ CanRender
    /\ \E outcomes \in Outcomes(scene.quickpreview_queue) :
         LET r == process_queue(World, outcomes)
         IN  Commit(r.w, "process_queue", outcomes, r.result)
    /\ UNCHANGED edited

\* the user flips one of the three naming check boxes
NamingFlags ==
    {"quickpreview_include_scene_name", "quickpreview_include_camera",
     "quickpreview_full_scene_name"}

ChangeNamingFlag ==
    /\ \E option \in NamingFlags :
         Commit(SetOption(World, option, ~scene[option]), "set_naming_flag", option, "")
    /\ UNCHANGED edited

\* the user picks the other save mode
ChangeSaveMode ==
    /\ \E m \in {"INCREMENTAL", "OVERWRITE"} :
         /\ m # scene.quickpreview_save_mode
         /\ Commit(SetOption(World, "quickpreview_save_mode", m), "set_save_mode", m, "")
    /\ UNCHANGED edited

\* the user picks another output format
OutputFormats == {"MP4_H264", "MOV_H264", "PNG_SEQ", "JPEG_SEQ"}

ChangeOutputFormat ==
    /\ \E fmt \in OutputFormats :
         /\ fmt # scene.quickpreview_output_format
         /\ Commit(SetOption(World, "quickpreview_output_format", fmt), "set_output_format", fmt, "")
    /\ UNCHANGED edited

\* the paths the user picks in the file browser: one in a directory that
\* exists, one in a directory that does not
UserPaths ==
    {<<"proj", "/", "cut", ".", "mov">>, <<"out", "/", "take", ".", "mp4">>}

\* the user picks an output path (quickpreview.set_output_path)
SetOutputPath ==
    /\ \E filepath \in UserPaths :
         Commit(set_output_path(World, filepath), "set_output_path", filepath, "FINISHED")
    /\ UNCHANGED edited

\* the add-on is enabled or a file is loaded: initialize_output_paths runs
InitializeOutputPaths ==
    /\ \E view3d \in BOOLEAN :
         Commit(initialize_output_paths(World, view3d), "initialize_output_paths", view3d, "")
    /\ UNCHANGED edited

\* ------------------------------------------------- settings specification

Init ==
    \E saved \in BOOLEAN, k \in 1..2, o \in 1..3 :
        Start(InitWorld(saved, {CamA}, WithOptions(DefaultScene(k, 1, 100, NoCamera), o), {}, {}))

Next == Render \/ SelectCamera \/ SetSceneCamera \/ SaveFile

Spec == Init /\ [][Next]_vars

\* ---------------------------------------------- frame range specification
\* a saved file on the timeline 1..250 with the add-on's properties at their
\* defaults: without camera objects, so that the preview is of the viewport
\* (InitTimeline), or with two cameras (InitFrames)

InitTimeline ==
    Start(InitWorld(TRUE, {}, DefaultScene(1, 1, 250, NoCamera), {}, {}))

InitFrames ==
    Start(InitWorld(TRUE, Cameras, DefaultScene(1, 1, 250, NoCamera), {}, {}))

NextFrames ==
    \/ Render
    \/ SelectCamera
    \/ EditFrameStart
    \/ EditFrameEnd
    \/ ChangeFrameRangeMode
    \/ SetTimeline

SpecFrames == InitTimeline /\ [][NextFrames]_vars

\* the user only selects cameras and edits the preview range
NextRanges == SelectCamera \/ EditFrameStart \/ EditFrameEnd

SpecRanges == InitFrames /\ [][NextRanges]_vars

\* ---------------------------------------------- recovery specification
\* the .blend file was saved with CamA as the active camera on the timeline
\* 1..100; the user changes the active camera, the timeline and the preview
\* camera without saving, and a render is cut short by a crash of the host

SavedFile == InitWorld(TRUE, {CamA}, DefaultScene(2, 1, 100, CamA), {}, {})

InitRecovery == Start(SavedFile)

\* the host crashes during MAKE PREVIEW and is started again on the file
CrashAndReload ==
    /\ CanRender
    /\ data.is_saved
    /\ fs.backups = {}
    /\ \E written \in BOOLEAN, point \in CrashPoints :
         Commit(load_post(RenderUntil(World, written, point), SavedFile),
                "crash", [written |-> written, point |-> point], "")
    /\ UNCHANGED edited

\* the user presses Restore Quick Preview Settings
RestoreSettings ==
    /\ LET r == restore_settings(World)
       IN  Commit(r.w, "restore_settings", <<>>, r.result)
    /\ UNCHANGED edited

NextRecovery ==
    \/ SetSceneCamera
    \/ SetTimeline
    \/ SelectCamera
    \/ CrashAndReload
    \/ RestoreSettings

SpecRecovery == InitRecovery /\ [][NextRecovery]_vars

\* ------------------------------------------------ naming specifications
\* a file, saved or not, with one camera and the add-on's properties as
\* register() leaves them: no output path yet

InitRegistered ==
    \E saved \in BOOLEAN :
        Start(RegisteredWorld(saved, {CamA}, DefaultScene(1, 1, 250, NoCamera), {}, {}))

\* the user changes what the file name is made of
NextNaming ==
    \/ SelectCamera
    \/ EditFrameStart
    \/ EditFrameEnd
    \/ ChangeNamingFlag
    \/ ChangeSaveMode
    \/ ChangeOutputFormat

SpecNaming == InitRegistered /\ [][NextNaming]_vars

\* the user picks output paths by hand between such changes
NextPath ==
    \/ InitializeOutputPaths
    \/ SetOutputPath
    \/ SelectCamera
    \/ EditFrameStart
    \/ ChangeSaveMode
    \/ ChangeOutputFormat

SpecPath == InitRegistered /\ [][NextPath]_vars

\* ----------------------------------------------------- queue specification
\* a saved file with one camera, on the timeline 1..100, the add-on's
\* properties at their defaults

QueueBase == InitWorld(TRUE, {CamA}, DefaultScene(1, 1, 100, NoCamera), {}, {})

InitQueue == Start(QueueBase)

NextQueue ==
    \/ AddToQueue
    \/ DisableItem
    \/ ProcessQueue
    \/ SelectCamera
    \/ SetSceneCamera
    \/ DeleteCamera

SpecQueue == InitQueue /\ [][NextQueue]_vars

\* the user selects camera c, enters start frame v and presses Add to Queue
QueuedAs(w, c, v) == add_to_queue(SetFrameStart(SetCamera(w, c), v))

\* what the user selected and entered for each item queued so far
QueueScripts(n) == UNION {[1..k -> (CameraItems(QueueBase) \X Frames)] : k \in 0..n}

RECURSIVE RunScript(_, _, _)
RunScript(w, script, i) ==
    IF i > Len(script) THEN w
    ELSE RunScript(QueuedAs(w, script[i][1], script[i][2]), script, i + 1)

\* a saved file with one camera whose user has queued up to n items and then
\* selected a camera and entered a start frame once more
QueueWorlds(n) ==
    {SetFrameStart(SetCamera(RunScript(QueueBase, script, 1), c), v) :
        script \in QueueScripts(n), c \in CameraItems(QueueBase), v \in Frames}

InitQueueRun == \E w \in QueueWorlds(MaxQueue) : Start(w)

SpecQueueRun == InitQueueRun /\ [][ProcessQueue]_vars

\* the user edits the queue, starting from at most one item queued under
\* another selection, and processes it
InitQueueEdit == \E w \in QueueWorlds(1) : Start(w)

NextQueueEdit ==
    \/ AddToQueue
    \/ RemoveQueueItem
    \/ ClearQueue
    \/ DisableItem
    \/ ProcessQueue

SpecQueueEdit == InitQueueEdit /\ [][NextQueueEdit]_vars

\* ------------------------------------------------ versioning specification
\* a saved file whose output directory may hold earlier previews: files named
\* after the configured output path (its version with three digits, a version
\* with four, one with another extension) and one of another base name; for
\* an image sequence, the first frame of version 1

VersionedBase(path) ==
    IF Contains(basename(path), <<"_", "v">>)
    THEN SplitFirst(basename(path), <<"_", "v">>)
    ELSE splitext(basename(path))[1]

PriorFiles(sc) ==
    LET path == sc.quickpreview_output_path
        d    == dirname(path)
        b    == VersionedBase(path)
        ext  == FormatExtension(sc.quickpreview_output_format)
    IN  IF IsSequenceFormat(sc.quickpreview_output_format)
        THEN {join(d, b \o <<"_", "v", "0", "0", "1", "_", "0", "0", "0", "1">> \o ext)}
        ELSE {join(d, b \o <<"_", "v", "0", "0", "1">> \o ext),
              join(d, b \o <<"_", "v", "0", "0", "0", "2">> \o ext),
              join(d, b \o <<"_", "v", "0", "0", "3", ".", "txt">>),
              join(d, <<"take", "_", "v", "0", "0", "7">> \o ext)}

WithPriorFiles(w, prior) ==
    IF prior = {} THEN w
    ELSE [w EXCEPT !.fs = [makedirs(@, dirname(w.scene.quickpreview_output_path))
                              EXCEPT !.files = prior]]

VersionedScene(fmt, mode, start, end_) ==
    [DefaultScene(1, 1, 250, NoCamera) EXCEPT !.quickpreview_output_format = fmt,
                                              !.quickpreview_save_mode = mode,
                                              !.quickpreview_frame_start = start,
                                              !.quickpreview_frame_end = end_]

InitVersions ==
    \E fmt \in {"MP4_H264", "MOV_H264", "PNG_SEQ", "JPEG_SEQ"},
       mode \in {"INCREMENTAL", "OVERWRITE"},
       start \in Frames, end_ \in Frames :
        /\ start <= end_
        /\ \E prior \in SUBSET PriorFiles(InitWorld(TRUE, {}, VersionedScene(fmt, mode, start, end_),
                                                     {}, {}).scene) :
             Start(WithPriorFiles(InitWorld(TRUE, {}, VersionedScene(fmt, mode, start, end_), {}, {}),
                                  prior))

SpecVersions == InitVersions /\ [][RenderAgain]_vars

\* ------------------------------------------------------------ properties

\* a render of a saved file has returned
Rendered == last.op = "render" /\ last.pre.data.is_saved

\* the render settings execute assigns for the preview
WrittenFields ==
    {"filepath", "file_format", "quality", "ffmpeg_format", "ffmpeg_codec", "ffmpeg_audio_codec",
     "ffmpeg_constant_rate_factor", "fps", "resolution_percentage", "use_simplify",
     "use_stamp", "use_stamp_frame", "use_stamp_frame_range", "use_stamp_camera",
     "use_stamp_lens", "use_stamp_scene", "use_stamp_date", "use_stamp_time",
     "use_stamp_render_time", "use_stamp_memory", "use_stamp_hostname", "use_stamp_marker",
     "use_stamp_filename", "stamp_font_size"}

\* C1: after a render of a saved file, FINISHED or CANCELLED, every render
\* setting the operator wrote for the preview has the value it had before the
\* operator started.  Stated for the renders whose backup file was written;
\* it fails for the settings the backup does not record.
C1_WrittenSettingsRestored ==
    (Rendered /\ last.args.written) =>
        \A f \in WrittenFields : scene.render[f] = last.pre.scene.render[f]

\* C2: when the backup succeeds, every field store_original_settings captured
\* (the timeline range and the captured render settings) has its pre-render
\* value after the operator returns, whether the render finished or raised.
C2_CapturedFieldsRestored ==
    (Rendered /\ last.args.written) =>
        /\ scene.frame_start = last.pre.scene.frame_start
        /\ scene.frame_end = last.pre.scene.frame_end
        /\ \A f \in CapturedFields : scene.render[f] = last.pre.scene.render[f]

\* a render whose host call raised after the preview settings were applied,
\* with settings at the time of the exception that differ from those restored
C2_RestoredAfterException ==
    /\ Rendered
    /\ last.args.written
    /\ last.result = "CANCELLED"
    /\ \E i \in 1..Len(last.trace) :
          /\ last.trace[i].ev = "except"
          /\ \E f \in CapturedFields : last.trace[i].render[f] # last.pre.scene.render[f]
          /\ <<last.trace[i].frame_start, last.trace[i].frame_end>> #
                <<last.pre.scene.frame_start, last.pre.scene.frame_end>>
    /\ \A f \in CapturedFields : scene.render[f] = last.pre.scene.render[f]

\* C3: after every render the scene's active camera is the one it was before
\* the operator started, also when the scene had no active camera and a named
\* preview camera is selected.  Stated for the renders whose backup file was
\* written.
C3_ActiveCameraRestored ==
    (Rendered /\ last.args.written) => scene.camera = last.pre.scene.camera

\* C9: on an unsaved file the render operator reports an error and returns
\* CANCELLED with nothing changed: no backup file, no flag, progress or timer
\* change, no scene or render setting modified, no host render.
C9_UnsavedFileCancelled ==
    (last.op = "render" /\ ~last.pre.data.is_saved) =>
        /\ last.result = "CANCELLED"
        /\ Before = last.pre
        /\ last.trace = <<[ev |-> "report", level |-> "ERROR"]>>

\* the operator has run on an unsaved file whose preview differs from the
\* scene in camera and in render settings, and was refused
C9_UnsavedRenderRefused ==
    /\ last.op = "render"
    /\ ~last.pre.data.is_saved
    /\ last.result = "CANCELLED"
    /\ scene.quickpreview_camera \in data.cameras
    /\ scene.camera # scene.quickpreview_camera
    /\ scene.render.file_format # "FFMPEG"

\* C4: when a named camera is selected again after a preview range was
\* edited under it, whatever was selected and edited in between, the preview
\* start and end frame are those its last edit left.
C4_CameraRangeRoundTrip ==
    (last.op = "select_camera" /\ last.args \in Cameras /\ edited[last.args] # <<>>) =>
        Selection.range = edited[last.args]

\* camera A is selected again while the range another camera was edited to
\* is shown, and its own range comes back
C4_RangeBroughtBack ==
    /\ last.op = "select_camera"
    /\ last.args = CamA
    /\ last.pre.camera = CamB
    /\ edited[CamA] # <<>>
    /\ last.pre.range = edited[CamB]
    /\ edited[CamB] # edited[CamA]
    /\ Selection.range = edited[CamA]

\* C10: a render started in TIMELINE mode renders the scene's timeline range
\* as it was just before the render started, after any timeline changes,
\* camera selections and preview range edits.
C10_TimelineRangeRendered ==
    (Rendered /\ last.pre.scene.quickpreview_frame_range = "TIMELINE") =>
        \A i \in 1..Len(last.trace) :
            last.trace[i].ev = "opengl" =>
                /\ last.trace[i].frame_start = last.pre.scene.frame_start
                /\ last.trace[i].frame_end = last.pre.scene.frame_end

\* the queue positions process_queue announced a render for, in order
IsRenderEvent(e) == e.ev = "render"

RenderedIndices(trace) ==
    [k \in 1..Len(SelectSeq(trace, IsRenderEvent)) |-> SelectSeq(trace, IsRenderEvent)[k].index]

\* the positions of the enabled items of queue q, in order
RECURSIVE EnabledFrom(_, _)
EnabledFrom(q, i) ==
    IF i > Len(q) THEN <<>>
    ELSE (IF q[i].enabled THEN <<i>> ELSE <<>>) \o EnabledFrom(q, i + 1)

\* the positions whose render returned FINISHED
FinishedIndices(trace) ==
    {trace[k].index : k \in {j \in 1..Len(trace) :
                                trace[j].ev = "result" /\ trace[j].result = "FINISHED"}}

\* C5: process_queue runs the render operator on every enabled item, in queue
\* order, whatever the item's status was, and on no disabled item; afterwards
\* an enabled item is COMPLETED if its render returned FINISHED and FAILED
\* otherwise.
C5_EnabledItemsRendered ==
    (last.op = "process_queue" /\ last.pre.scene.quickpreview_queue # <<>>) =>
        /\ RenderedIndices(last.trace) = EnabledFrom(last.pre.scene.quickpreview_queue, 1)
        /\ \A i \in 1..Len(scene.quickpreview_queue) :
              last.pre.scene.quickpreview_queue[i].enabled =>
                  scene.quickpreview_queue[i].status =
                      IF i \in FinishedIndices(last.trace) THEN "COMPLETED" ELSE "FAILED"

\* C6: after process_queue returns FINISHED, the active camera, the timeline
\* range and quickpreview_output_path are those it started with.
C6_OriginalStateRestored ==
    (last.op = "process_queue" /\ last.result = "FINISHED") =>
        /\ scene.camera = last.pre.scene.camera
        /\ scene.frame_start = last.pre.scene.frame_start
        /\ scene.frame_end = last.pre.scene.frame_end
        /\ scene.quickpreview_output_path = last.pre.scene.quickpreview_output_path

\* a queue was processed whose render used another camera, another frame
\* range and another output path than the scene had, without a backup that
\* would have brought the frame range back
C6_RestoredAfterQueue ==
    /\ last.op = "process_queue"
    /\ last.result = "FINISHED"
    /\ \E k \in 1..Len(last.trace) :
          /\ last.trace[k].ev = "opengl"
          /\ last.trace[k].camera # last.pre.scene.camera
          /\ last.trace[k].frame_end # last.pre.scene.frame_end
    /\ \E k \in 1..Len(last.trace) :
          /\ last.trace[k].ev = "render"
          /\ last.trace[k].output_path # last.pre.scene.quickpreview_output_path
          /\ ~last.args[last.trace[k].index].written
    /\ scene.camera = last.pre.scene.camera
    /\ scene.frame_end = last.pre.scene.frame_end

\* the widest zero padding of a version number looked for on the disk, and
\* the highest version number looked for
MaxPad == 5

MaxVersion == 9

\* a render of a saved file in INCREMENTAL mode to a video format whose
\* configured file name is <base>_v001<ext> with no "_v" in base
VideoTemplateRendered ==
    /\ Rendered
    /\ last.pre.scene.quickpreview_save_mode = "INCREMENTAL"
    /\ ~IsSequenceFormat(last.pre.scene.quickpreview_output_format)
    /\ EndsWith(basename(last.pre.scene.quickpreview_output_path),
                <<"_", "v", "0", "0", "1">> \o FormatExtension(last.pre.scene.quickpreview_output_format))
    /\ Cardinality(Occurs(basename(last.pre.scene.quickpreview_output_path), <<"_", "v">>)) = 1

\* <directory>/<base>_v<digits><ext> for the configured path of that render
VersionFile(digits) ==
    join(dirname(last.pre.scene.quickpreview_output_path),
         SplitFirst(basename(last.pre.scene.quickpreview_output_path), <<"_", "v">>)
            \o <<"_", "v">> \o digits
            \o FormatExtension(last.pre.scene.quickpreview_output_format))

\* the versions <base>_v<digits><ext> on the disk before that render
VersionsBefore ==
    {n \in 0..MaxVersion :
        \E width \in 1..MaxPad : VersionFile(PadZero(Digits(n), width)) \in last.pre.fs.files}

\* C7: in INCREMENTAL mode a video render from the template <base>_v001<ext>
\* writes <base>_v<N><ext>, N being one more than the highest version among
\* the files <base>_v<digits><ext> of the output directory, or 1 when there
\* is none, and that file did not exist before.
C7_VideoNextVersion ==
    VideoTemplateRendered =>
        \A i \in 1..Len(last.trace) :
            last.trace[i].ev = "opengl" =>
                /\ last.trace[i].files =
                      {VersionFile(Fmt03d(IF VersionsBefore = {} THEN 1 ELSE Max(VersionsBefore) + 1))}
                /\ last.trace[i].files \cap last.pre.fs.files = {}

\* a video was rendered as version 3 next to a version 001 and a version 0002
C7_ThirdVersionWritten ==
    /\ VideoTemplateRendered
    /\ last.result = "FINISHED"
    /\ VersionsBefore = {1, 2}
    /\ VersionFile(<<"0", "0", "0", "2">>) \in last.pre.fs.files
    /\ VersionFile(<<"0", "0", "3">>) \in fs.files \ last.pre.fs.files

\* C8: in INCREMENTAL mode a render of an image sequence writes no frame
\* file that existed before it, whatever the preview frame range.  Stated for
\* the renders whose backup file was written.
C8_SequenceNeverOverwrites ==
    (/\ Rendered
     /\ last.args.written
     /\ last.pre.scene.quickpreview_save_mode = "INCREMENTAL"
     /\ IsSequenceFormat(last.pre.scene.quickpreview_output_format)) =>
        \A i \in 1..Len(last.trace) :
            last.trace[i].ev = "opengl" => last.trace[i].files \cap last.pre.fs.files = {}

\* the range stored for camera c in scene sc, <<>> when there is none
StoredRange(sc, c) ==
    IF DictHas(sc.quickpreview_camera_ranges, c)
    THEN <<DictGet(sc.quickpreview_camera_ranges, c).start, DictGet(sc.quickpreview_camera_ranges, c).end>>
    ELSE <<>>

EditOps == {"edit_frame_start", "edit_frame_end"}

\* a step in which the user edits Start Frame or End Frame under a named camera
EditStoresRange ==
    (last'.op \in EditOps /\ scene.quickpreview_camera \in Cameras) =>
        /\ last'.op = "edit_frame_start" => scene'.quickpreview_frame_start = last'.args
        /\ last'.op = "edit_frame_end" => scene'.quickpreview_frame_end = last'.args
        /\ StoredRange(scene', scene.quickpreview_camera) =
              <<scene'.quickpreview_frame_start, scene'.quickpreview_frame_end>>
        /\ \A c \in Cameras \ {scene.quickpreview_camera} :
              StoredRange(scene', c) = StoredRange(scene, c)

\* C19: every user edit of the preview start or end frame while a named
\* camera is selected sets that camera's stored range to the preview range
\* the edit leaves, and leaves the stored range of every other camera as it was.
C19_EditStoresRange == [][EditStoresRange]_vars

\* an edit under camera A has stored its range while camera B keeps another
\* stored range
C19_RangeStoredOnEdit ==
    /\ last.op \in EditOps
    /\ scene.quickpreview_camera = CamA
    /\ StoredRange(scene, CamA) = Selection.range
    /\ StoredRange(scene, CamB) # <<>>
    /\ StoredRange(scene, CamB) # Selection.range

\* a step in which the user picks a camera
SelectKeepsRanges ==
    last'.op = "select_camera" =>
        /\ scene'.quickpreview_camera_ranges = scene.quickpreview_camera_ranges
        /\ StoredRange(scene, last'.args) = <<>> =>
              /\ scene'.quickpreview_frame_start = scene.quickpreview_frame_start
              /\ scene'.quickpreview_frame_end = scene.quickpreview_frame_end
        /\ StoredRange(scene, last'.args) # <<>> =>
              <<scene'.quickpreview_frame_start, scene'.quickpreview_frame_end>> =
                  StoredRange(scene, last'.args)

\* C20: selecting a camera never modifies the stored per-camera ranges (the
\* writes of load_camera_frame_range to the preview range save nothing); when
\* the selected camera has no stored range, the preview start and end frame
\* keep their values and no entry is made for it.
C20_SelectKeepsRanges == [][SelectKeepsRanges]_vars

\* camera B, which has no stored range, was picked while the range stored
\* for camera A was shown, and that range is still shown and nothing is
\* stored for B
C20_UnstoredCameraSelected ==
    /\ last.op = "select_camera"
    /\ last.args = CamB
    /\ last.pre.camera = CamA
    /\ StoredRange(scene, CamA) = last.pre.range
    /\ StoredRange(scene, CamB) = <<>>
    /\ Selection.range = last.pre.range

\* C15: process_queue always runs to completion: whatever the queue holds,
\* also items whose camera no longer exists, it returns, and then every
\* enabled item is COMPLETED or FAILED and no item is PROCESSING.
C15_QueueRunsToCompletion ==
    last.op = "process_queue" =>
        /\ last.result \in {"FINISHED", "CANCELLED"}
        /\ \A i \in 1..Len(scene.quickpreview_queue) :
              /\ scene.quickpreview_queue[i].status # "PROCESSING"
              /\ scene.quickpreview_queue[i].enabled =>
                    scene.quickpreview_queue[i].status \in {"COMPLETED", "FAILED"}

\* C16: after process_queue the range stored for every camera is what it was
\* before process_queue started, also when an item's frame range differs from
\* the range stored for its camera.
C16_StoredRangesKept ==
    last.op = "process_queue" =>
        \A c \in Cameras : StoredRange(scene, c) = StoredRange(last.pre.scene, c)

\* the item whose render the trace event e announces, as it was queued
AnnouncedItem(e) == last.pre.scene.quickpreview_queue[e.index]

\* C17: when process_queue invokes the render operator for an enabled item,
\* the preview camera, start frame, end frame and output path are the item's,
\* whatever range is stored for that camera.
C17_ItemSettingsAtRender ==
    last.op = "process_queue" =>
        \A k \in 1..Len(last.trace) :
            last.trace[k].ev = "render" =>
                /\ last.trace[k].camera = AnnouncedItem(last.trace[k]).camera_name
                /\ last.trace[k].frame_start = AnnouncedItem(last.trace[k]).frame_start
                /\ last.trace[k].frame_end = AnnouncedItem(last.trace[k]).frame_end
                /\ last.trace[k].output_path = AnnouncedItem(last.trace[k]).output_path

\* the first item of the queue was rendered for camera A with its own range
\* while another range was stored for camera A and another camera, range and
\* path were selected
C17_ItemRangeOverStored ==
    /\ last.op = "process_queue"
    /\ \E k \in 1..Len(last.trace) :
          /\ last.trace[k].ev = "render"
          /\ last.trace[k].index = 1
          /\ last.trace[k].camera = CamA
          /\ StoredRange(last.pre.scene, CamA) # <<>>
          /\ StoredRange(last.pre.scene, CamA) # <<last.trace[k].frame_start, last.trace[k].frame_end>>
          /\ last.pre.scene.quickpreview_camera # CamA
          /\ last.pre.scene.quickpreview_output_path # last.trace[k].output_path
          /\ last.trace[k].frame_start = AnnouncedItem(last.trace[k]).frame_start

\* what process_queue may not change of a queue item
ItemSettings(item) ==
    [camera_name |-> item.camera_name, frame_start |-> item.frame_start,
     frame_end |-> item.frame_end, output_path |-> item.output_path, enabled |-> item.enabled]

\* what identifies a queue item
ItemIdentity(item) ==
    [camera_name |-> item.camera_name, frame_start |-> item.frame_start,
     frame_end |-> item.frame_end, output_path |-> item.output_path]

\* a step of process_queue
ProcessKeepsQueue ==
    last'.op = "process_queue" =>
        /\ Len(scene'.quickpreview_queue) = Len(scene.quickpreview_queue)
        /\ \A i \in 1..Len(scene.quickpreview_queue) :
              /\ ItemSettings(scene'.quickpreview_queue[i]) = ItemSettings(scene.quickpreview_queue[i])
              /\ ~scene.quickpreview_queue[i].enabled =>
                    scene'.quickpreview_queue[i].status = scene.quickpreview_queue[i].status
        /\ scene.quickpreview_queue = <<>> =>
              /\ last'.result = "CANCELLED"
              /\ <<data', scene', fs', app'>> = <<data, scene, fs, app>>

\* a step of add_to_queue, remove_queue_item or clear_queue
QueueEdited ==
    /\ last'.op = "add_to_queue" =>
          scene'.quickpreview_queue =
              Append(scene.quickpreview_queue,
                     [camera_name |-> scene.quickpreview_camera,
                      frame_start |-> scene.quickpreview_frame_start,
                      frame_end   |-> scene.quickpreview_frame_end,
                      output_path |-> scene.quickpreview_output_path,
                      enabled     |-> TRUE,
                      status      |-> "PENDING"])
    /\ last'.op = "remove_queue_item" =>
          scene'.quickpreview_queue =
              IF last'.args \in 0..(Len(scene.quickpreview_queue) - 1)
              THEN [i \in 1..(Len(scene.quickpreview_queue) - 1) |->
                       IF i <= last'.args THEN scene.quickpreview_queue[i]
                       ELSE scene.quickpreview_queue[i + 1]]
              ELSE scene.quickpreview_queue
    /\ last'.op = "clear_queue" => scene'.quickpreview_queue = <<>>

\* any other step
QueueOrderKept ==
    last'.op \notin {"add_to_queue", "remove_queue_item", "clear_queue"} =>
        /\ Len(scene'.quickpreview_queue) = Len(scene.quickpreview_queue)
        /\ \A i \in 1..Len(scene.quickpreview_queue) :
              ItemIdentity(scene'.quickpreview_queue[i]) = ItemIdentity(scene.quickpreview_queue[i])

\* C18: process_queue changes only item statuses: it adds, removes and
\* reorders nothing, keeps every item's camera, range, path and enabled flag
\* and every disabled item's status, and on an empty queue returns CANCELLED
\* with nothing changed.  The queue's length and order change only by
\* add_to_queue (one PENDING item appended), remove_queue_item (the item at a
\* valid index removed, nothing for an index outside 0..len-1) and clear_queue.
C18_OnlyStatusesChange == [][ProcessKeepsQueue /\ QueueEdited /\ QueueOrderKept]_vars

\* a queue of two different items was processed: the disabled first one kept
\* its status FAILED, the second one was rendered and is COMPLETED
C18_DisabledItemKeptStatus ==
    /\ last.op = "process_queue"
    /\ Len(scene.quickpreview_queue) = 2
    /\ ~scene.quickpreview_queue[1].enabled
    /\ scene.quickpreview_queue[1].status = "FAILED"
    /\ scene.quickpreview_queue[2].status = "COMPLETED"
    /\ ItemIdentity(scene.quickpreview_queue[1]) # ItemIdentity(scene.quickpreview_queue[2])

\* the steps that change what the generated file name is made of
NamingOps ==
    {"select_camera", "edit_frame_start", "edit_frame_end", "set_naming_flag",
     "set_save_mode", "set_output_format"}

\* a change of camera, range, save mode, format or naming option while the
\* output path is one the user picked
UserPathKept ==
    (scene.quickpreview_output_path \in UserPaths /\ last'.op \in NamingOps) =>
        scene'.quickpreview_output_path = scene.quickpreview_output_path

\* C12: once the output path has been set through quickpreview.set_output_path,
\* changes of camera, preview start/end frame, save mode, output format or
\* naming options leave quickpreview_output_path as the user chose it.
C12_ManualPathKept == [][UserPathKept]_vars

\* the name the naming scheme gives the preview of the current settings
SchemeName ==
    JoinParts((IF scene.quickpreview_include_scene_name THEN <<get_scene_name(World)>> ELSE <<>>)
              \o (IF scene.quickpreview_include_camera /\ scene.quickpreview_camera # ViewportCam
                  THEN <<(<<scene.quickpreview_camera>>)>> ELSE <<>>)
              \o <<PadZero(Digits(scene.quickpreview_frame_start), 3) \o <<"-">>
                      \o PadZero(Digits(scene.quickpreview_frame_end), 3)>>)
        \o (IF scene.quickpreview_save_mode = "INCREMENTAL" THEN <<"_", "v", "0", "0", "1">> ELSE <<>>)

SchemeFile ==
    IF scene.quickpreview_output_format = "MP4_H264" THEN SchemeName \o <<".", "mp4">>
    ELSE IF scene.quickpreview_output_format = "MOV_H264" THEN SchemeName \o <<".", "mov">>
    ELSE SchemeName \o <<"/">> \o SchemeName \o <<"_", "#", "#", "#", "#">>

\* C13: after any change of camera, preview start/end frame, naming option,
\* save mode or output format, the output path ends in the file name of the
\* naming scheme: scene name and camera name if enabled, "<start>-<end>" padded
\* to three digits, joined by "_", "_v001" in INCREMENTAL mode, then ".mp4" or
\* ".mov", or "<name>/<name>_####" for an image sequence.
C13_NamingScheme ==
    last.op \in NamingOps =>
        EndsWith(scene.quickpreview_output_path, <<"/">> \o SchemeFile)

\* the format was changed to PNG sequence for camera A, frames 2-250, in
\* INCREMENTAL mode with the version kept in the scene name
C13_SequenceNamed ==
    /\ last.op = "set_output_format"
    /\ last.args = "PNG_SEQ"
    /\ scene.quickpreview_output_path =
          <<"proj", "/", "previews", "/",
            "shot", "_", "v", "0", "0", "2", "_", "CamA", "_", "0", "0", "2", "-", "2", "5", "0",
            "_", "v", "0", "0", "1", "/",
            "shot", "_", "v", "0", "0", "2", "_", "CamA", "_", "0", "0", "2", "-", "2", "5", "0",
            "_", "v", "0", "0", "1", "_", "#", "#", "#", "#">>

\* C14: when initialize_output_paths has run and a 3D viewport area exists,
\* the scene, whose output path may have been empty, has a non-empty
\* generated output path.
C14_OutputPathInitialized ==
    (last.op = "initialize_output_paths" /\ last.args) =>
        scene.quickpreview_output_path # <<>>

\* the settings store_original_settings records of scene sc
SettingsOf(sc) ==
    [present     |-> TRUE,
     frame_start |-> sc.frame_start,
     frame_end   |-> sc.frame_end,
     camera      |-> sc.camera,
     render      |-> [f \in CapturedFields |-> sc.render[f]]]

\* a crash during a render whose backup file was written: the file is on the
\* disk with the pre-render values and the load shows the notice
BackupSurvivesCrash ==
    (last'.op = "crash" /\ last'.args.written) =>
        /\ fs'.backups = {SettingsOf(scene)}
        /\ \E i \in 1..Len(last'.trace) : last'.trace[i].ev = "recovery_notice"

\* restore_settings run after such a crash and load
RestoredAfterCrash ==
    (last.op = "crash" /\ last.args.written /\ last'.op = "restore_settings") =>
        /\ last'.result = "FINISHED"
        /\ SettingsOf(scene') = SettingsOf(last.pre.scene)
        /\ fs'.backups = {}

\* C11: when the host terminates between store_original_settings and the
\* restore step of a render, a backup file with the pre-render values is on
\* the disk, the next load detects it, and quickpreview.restore_settings then
\* sets every backed-up field to its pre-render value and deletes the file.
\* Stated for the renders whose backup file was written.
C11_CrashRecovery == [][BackupSurvivesCrash /\ RestoredAfterCrash]_vars

====
